---- MODULE Spec2Model ----
(***************************************************************************)
(* Model of the Raspberry Pi data receiver (src/main.py): the WebSocket    *)
(* ConnectionManager, the ingestion endpoint receive_raspberry_data, the   *)
(* administrative delete_data endpoint and the /ws endpoint, running as    *)
(* coroutines of one asyncio event loop over one SQLite database.          *)
(*                                                                         *)
(* Scheduling.  A coroutine runs without interruption from one await that  *)
(* really suspends to the next one.  `running` names the request whose     *)
(* coroutine holds the event loop (0: the loop is free); every step of     *)
(* another coroutine waits for running = 0.  The awaits that suspend are   *)
(* websocket.accept(), websocket.send_text(), websocket.receive_text()     *)
(* and image.read(); awaiting get_raspberry_locations_data() or            *)
(* get_statistics_data() does not suspend (their bodies hold no await).    *)
(*                                                                         *)
(* Channels.  A send_text puts its message on the observer's channel when  *)
(* it is called and completes later; a channel completes its sends in the  *)
(* order they were started (sendq).  The outcome of a send is decided when *)
(* it completes, from the state of the channel at that time.               *)
(***************************************************************************)
EXTENDS Integers, Sequences, FiniteSets, TLC

\* ------------------------------------------------------------------ bounds
\* Clients that may arrive in a run: WebSocket connections on /ws and HTTP
\* requests (ingestions and deletes) together
MaxArrivals == 3

Obs == 1..MaxArrivals
Tasks == 1..MaxArrivals

\* ------------------------------------------------------- program constants
NoneVal == "None"
\* A server that expects another key
ADMIN_KEY_other == "wrong"
ADMIN_KEY == "SECRET123"
SeededIds == {"DIRIS_LIMA", "UPC_MONTERRICO", "RPI_MOLINA"}
NewId == "RPI_NEW"

VARIABLES
    active_connections, \* ConnectionManager.active_connections: list of observers
    wsPc,               \* per observer: position of its websocket_endpoint coroutine
    chan,               \* per observer: state of its network channel
    sendq,              \* per observer: send_text calls started and not completed, oldest first
    received,           \* per observer: what its client has been delivered (the first
                        \* message's type, the number of initial_data snapshots)
    raspberry_info,     \* committed rows of table raspberry_info
    detections,         \* committed rows of table detections
    seq,                \* AUTOINCREMENT counter of detections.id
    lock,               \* request holding an open write transaction (0: none)
    txn,                \* uncommitted raspberry_info rows of the open transaction
    clock,              \* datetime.now(), as the day of the last stored detection
    task,               \* per request: the state of its handler coroutine
    running             \* request whose coroutine holds the event loop (0: none)

vars == <<active_connections, wsPc, chan, sendq, received, raspberry_info,
          detections, seq, lock, txn, clock, task, running>>

storeVars == <<raspberry_info, detections, seq, lock, txn>>
wsVars == <<wsPc, chan>>

\* ---------------------------------------------------------------- helpers
Range(s) == {s[i] : i \in 1..Len(s)}

\* list.remove(x): drops the first occurrence of x (the caller checks x is there)
ListRemove(s, x) ==
    LET i == CHOOSE k \in 1..Len(s) : s[k] = x /\ \A j \in 1..(k - 1) : s[j] # x
    IN  SubSeq(s, 1, i - 1) \o SubSeq(s, i + 1, Len(s))

\* A check of the content type that lets everything through
is_image_any(content_type) == TRUE

\* image.content_type.startswith('image/'): the type before the slash is "image"
is_image(content_type) == content_type[1] = "image"

\* ---------------------------------------------------------------- reports
Report(id, ct) ==
    [raspberry_id |-> id,
     name |-> "Reported name",
     location |-> "Reported location",
     latitude |-> "-12.05",
     longitude |-> "-77.04",
     detection_count |-> IF id = NewId THEN 1 ELSE 2,
     temperature |-> IF id = NewId THEN 20 ELSE 22,
     humidity |-> 60,
     content_type |-> ct]

Reports ==
    {Report(id, ct) : id \in {"DIRIS_LIMA", NewId},
                      ct \in {<<"image", "jpeg">>, <<"text", "plain">>}}

NoReport == Report(NoneVal, <<NoneVal>>)

\* ------------------------------------------------------------------ init_db
SeedRow(id, name, location, lat, lon, status) ==
    [raspberry_id |-> id, name |-> name, location |-> location,
     latitude |-> lat, longitude |-> lon, last_seen |-> 0, status |-> status]

init_db ==
    {SeedRow("DIRIS_LIMA", "Raspberry Pi DIRIS", "El Agustino", "-12.0407", "-76.9951", "online"),
     SeedRow("UPC_MONTERRICO", "Raspberry Pi UPC", "Monterrico", "-12.1037", "-76.9630", "online"),
     SeedRow("RPI_MOLINA", "Raspberry Pi Molina", "La Molina", "-12.0729", "-76.9691", "offline")}

IdleTask ==
    [pc |-> "idle", kind |-> NoneVal, report |-> NoReport,
     committed |-> FALSE, status_code |-> 0,
     sent |-> <<>>,
     it |-> 0, cur |-> 0, start |-> <<>>, delivered |-> <<>>, failed |-> {}]

Init ==
    /\ active_connections = <<>>
    /\ wsPc = [o \in Obs |-> "idle"]
    /\ chan = [o \in Obs |-> "open"]
    /\ sendq = [o \in Obs |-> <<>>]
    /\ received = [o \in Obs |-> [first |-> NoneVal, snapshots |-> 0]]
    /\ raspberry_info = init_db
    /\ detections = {}
    /\ seq = 0
    /\ lock = 0
    /\ txn = {}
    /\ clock = 0
    /\ task = [t \in Tasks |-> IdleTask]
    /\ running = 0

\* The clients that have arrived so far
Arrivals ==
    Cardinality({o \in Obs : wsPc[o] # "idle"}) + Cardinality({t \in Tasks : task[t].pc # "idle"})

\* ------------------------------------------------------ ConnectionManager
\* connect, after the await of websocket.accept(): active_connections.append
connect(conns, ws) == Append(conns, ws)

\* disconnect: active_connections.remove(websocket); list.remove raises
\* ValueError when the websocket is not in the list
disconnect(conns, ws) ==
    IF ws \in Range(conns)
    THEN [raised |-> FALSE, conns |-> ListRemove(conns, ws)]
    ELSE [raised |-> TRUE, conns |-> conns]

\* What a send_text on a channel in state c may do when it completes: it
\* delivers on an open channel; on a closed one it raises RuntimeError (the
\* close was already seen) or another exception (the connection broke under
\* the send), whichever the transport reports
SendOutcomes(c) ==
    IF c = "open" THEN {"ok"} ELSE {"RuntimeError", "Exception"}

\* A delete_data whose second broadcast announces a detection
MsgType_detection(pc) ==
    CASE pc = "bcast0" -> "locations_update"
      [] pc = "bcast1" -> "new_detection"
      [] pc = "bcast2" -> "locations_update"
      [] pc = "bcast3" -> "stats_update"
      [] pc = "dbcast1" -> "locations_update"
      [] pc = "dbcast2" -> "new_detection"
      [] OTHER -> NoneVal

\* The message a broadcast sends, by the place of the call in the handler
MsgType(pc) ==
    CASE pc = "bcast0" -> "locations_update"
      [] pc = "bcast1" -> "new_detection"
      [] pc = "bcast2" -> "locations_update"
      [] pc = "bcast3" -> "stats_update"
      [] pc = "dbcast1" -> "locations_update"
      [] pc = "dbcast2" -> "stats_update"
      [] OTHER -> NoneVal

BcastPcs == {"bcast0", "bcast1", "bcast2", "bcast3", "dbcast1", "dbcast2"}

\* The broadcast call that follows the one at place pc in the same handler
NextBroadcast(pc) ==
    CASE pc = "bcast1" -> "bcast2"
      [] pc = "bcast2" -> "bcast3"
      [] OTHER -> "dbcast2"

\* The handler calls manager.broadcast(...) at place pcv: the for loop starts
\* at the head of the list as it is now (sent: the types of the messages the
\* handler has broadcast to observers so far, this one included)
BeginBroadcast(rec, pcv, conns) ==
    [rec EXCEPT !.pc = pcv, !.sent = Append(@, MsgType(pcv)), !.it = 0, !.cur = 0,
                !.start = conns, !.delivered = <<>>, !.failed = {}]

\* No broadcast is in progress in the handler
NoBroadcast(rec) ==
    [rec EXCEPT !.it = 0, !.cur = 0, !.start = <<>>, !.delivered = <<>>, !.failed = {}]

\* The handler is over: it answers with status code, by a return (acked, done)
\* or by an HTTPException (rejected, denied, failed); its locals are dropped
EndTask(rec, pcv, code) ==
    [NoBroadcast(rec) EXCEPT !.pc = pcv, !.status_code = code,
                             !.report = NoReport, !.sent = <<>>]

\* The client of a channel is delivered a message of type ty
Deliver(r, ty) ==
    [first |-> IF r.first = NoneVal THEN ty ELSE r.first,
     snapshots |-> IF ty = "initial_data" THEN r.snapshots + 1 ELSE r.snapshots]

\* ------------------------------------------------------- websocket_endpoint
\* A client opens /ws: the endpoint awaits websocket.accept() in connect
WsOpen(o) ==
    /\ running = 0
    /\ wsPc[o] = "idle"
    /\ o > 1 => wsPc[o - 1] # "idle"
    /\ Arrivals < MaxArrivals
    /\ wsPc' = [wsPc EXCEPT ![o] = "accepting"]
    /\ UNCHANGED <<active_connections, chan, sendq, received, storeVars, clock, task, running>>

\* A registration that waits until no broadcast is in progress, as under a
\* lock on the registry that broadcast would hold across its sends
WsAccepted_Locked(o) ==
    /\ running = 0
    /\ wsPc[o] = "accepting"
    /\ \A t \in Tasks : task[t].pc \notin BcastPcs
    /\ active_connections' = connect(active_connections, o)
    /\ sendq' = [sendq EXCEPT ![o] = Append(@, 0)]
    /\ wsPc' = [wsPc EXCEPT ![o] = "snapshot"]
    /\ UNCHANGED <<chan, received, storeVars, clock, task, running>>

\* An endpoint that registers the websocket and goes to its receive loop
\* without sending the snapshot
WsAccepted_NoSnapshot(o) ==
    /\ running = 0
    /\ wsPc[o] = "accepting"
    /\ active_connections' = connect(active_connections, o)
    /\ wsPc' = [wsPc EXCEPT ![o] = "receiving"]
    /\ UNCHANGED <<chan, sendq, received, storeVars, clock, task, running>>

\* accept() returns: connect appends the websocket, the endpoint computes the
\* snapshot and calls send_text(initial_data) with no suspension in between
WsAccepted(o) ==
    /\ running = 0
    /\ wsPc[o] = "accepting"
    /\ active_connections' = connect(active_connections, o)
    /\ sendq' = [sendq EXCEPT ![o] = Append(@, 0)]
    /\ wsPc' = [wsPc EXCEPT ![o] = "snapshot"]
    /\ UNCHANGED <<chan, received, storeVars, clock, task, running>>

\* What the endpoint's except clauses do: manager.disconnect(websocket)
WsHandleDisconnect(o) ==
    LET d == disconnect(active_connections, o)
    IN  /\ active_connections' = d.conns
        /\ wsPc' = [wsPc EXCEPT ![o] = IF d.raised THEN "error" ELSE "closed"]

\* The send of the snapshot completes: the endpoint enters its receive loop,
\* or the send raised and the except clause disconnects
WsSnapshotDone(o) ==
    /\ running = 0
    /\ wsPc[o] = "snapshot"
    /\ sendq[o] # <<>> /\ Head(sendq[o]) = 0
    /\ chan[o] # "stalled"
    /\ sendq' = [sendq EXCEPT ![o] = Tail(@)]
    /\ IF chan[o] = "open"
       THEN /\ received' = [received EXCEPT ![o] = Deliver(@, "initial_data")]
            /\ wsPc' = [wsPc EXCEPT ![o] = "receiving"]
            /\ UNCHANGED active_connections
       ELSE /\ WsHandleDisconnect(o)
            /\ UNCHANGED received
    /\ UNCHANGED <<chan, storeVars, clock, task, running>>

\* receive_text raises WebSocketDisconnect: the except clause disconnects
WsDisconnected(o) ==
    /\ running = 0
    /\ wsPc[o] = "receiving"
    /\ chan[o] = "closed"
    /\ WsHandleDisconnect(o)
    /\ UNCHANGED <<chan, sendq, received, storeVars, clock, task, running>>

\* The network: the client goes away or the connection breaks
ChanFail(o) ==
    /\ running = 0
    /\ wsPc[o] \in {"snapshot", "receiving"}
    /\ chan[o] \in {"open", "stalled"}
    /\ chan' = [chan EXCEPT ![o] = "closed"]
    /\ UNCHANGED <<active_connections, wsPc, sendq, received, storeVars, clock, task, running>>

\* ------------------------------------------------------------------ Store
\* An existence check that never finds the device
device_count_none(rows, id) == 0

\* An existence check that finds every device
device_count_known(rows, id) == 1

\* SELECT COUNT(*) FROM raspberry_info WHERE raspberry_id = ?
device_count(rows, id) == Cardinality({r \in rows : r.raspberry_id = id})

\* INSERT INTO raspberry_info (...) VALUES (..., now, "online")
insert_device(rows, rep, now) ==
    rows \cup {[raspberry_id |-> rep.raspberry_id, name |-> rep.name,
                location |-> rep.location, latitude |-> rep.latitude,
                longitude |-> rep.longitude, last_seen |-> now, status |-> "online"]}

\* An insert that replaces the device's earlier detections by the new row
insert_detection_replace(rows, id, rep, now) ==
    {r \in rows : r.raspberry_id # rep.raspberry_id}
        \cup {[id |-> id, raspberry_id |-> rep.raspberry_id, timestamp |-> now,
                detection_count |-> rep.detection_count,
                temperature |-> rep.temperature, humidity |-> rep.humidity,
                latitude |-> rep.latitude, longitude |-> rep.longitude]}

\* INSERT INTO detections (...): a new row under the next AUTOINCREMENT id
insert_detection(rows, id, rep, now) ==
    rows \cup {[id |-> id, raspberry_id |-> rep.raspberry_id, timestamp |-> now,
                detection_count |-> rep.detection_count,
                temperature |-> rep.temperature, humidity |-> rep.humidity,
                latitude |-> rep.latitude, longitude |-> rep.longitude]}

\* An update that also overwrites the device's name with the reported one
update_device_name(rows, rep, now) ==
    {IF r.raspberry_id = rep.raspberry_id
     THEN [r EXCEPT !.last_seen = now, !.latitude = rep.latitude,
                    !.longitude = rep.longitude, !.location = rep.location,
                    !.status = "online", !.name = rep.name]
     ELSE r : r \in rows}

\* UPDATE raspberry_info SET last_seen, latitude, longitude, location,
\* status = 'online' WHERE raspberry_id = ?
update_device(rows, rep, now) ==
    {IF r.raspberry_id = rep.raspberry_id
     THEN [r EXCEPT !.last_seen = now, !.latitude = rep.latitude,
                    !.longitude = rep.longitude, !.location = rep.location,
                    !.status = "online"]
     ELSE r : r \in rows}

\* ----------------------------------------------------------------- readers
\* SUM(d.detection_count) over the detections rows
RECURSIVE SumCounts(_)
SumCounts(rows) ==
    IF rows = {} THEN 0
    ELSE LET d == CHOOSE x \in rows : TRUE
         IN  d.detection_count + SumCounts(rows \ {d})

\* MAX(d.timestamp) over a non-empty set of detections rows
MaxTimestamp(rows) ==
    CHOOSE m \in {d.timestamp : d \in rows} : \A d \in rows : d.timestamp <= m

\* SELECT r.*, SUM(d.detection_count), MAX(d.timestamp) FROM raspberry_info r
\* LEFT JOIN detections d ON r.raspberry_id = d.raspberry_id GROUP BY
\* r.raspberry_id: one row per device; the aggregates of a device with no
\* detection are NULL (<<>>; a value v is <<v>>)
locations_rows(devs, dets) ==
    {LET mine == {d \in dets : d.raspberry_id = r.raspberry_id}
     IN  [raspberry_id |-> r.raspberry_id, name |-> r.name, location |-> r.location,
          latitude |-> r.latitude, longitude |-> r.longitude,
          last_seen |-> r.last_seen, status |-> r.status,
          total_detections |-> IF mine = {} THEN <<>> ELSE <<SumCounts(mine)>>,
          last_detection |-> IF mine = {} THEN <<>> ELSE <<MaxTimestamp(mine)>>]
     : r \in devs}

\* A reader that goes through the connection of the open transaction and so
\* sees its uncommitted rows
get_raspberry_locations_data_in_txn == locations_rows(raspberry_info \cup txn, detections)

\* get_raspberry_locations_data opens a connection of its own: it reads the
\* committed rows, whoever calls it and whenever
get_raspberry_locations_data == locations_rows(raspberry_info, detections)

\* SELECT raspberry_id, COUNT(*) FROM detections GROUP BY raspberry_id, as the
\* dict detections_by_pi: a count for each raspberry_id that has a detection
detections_by_pi(rows) ==
    [id \in {d.raspberry_id : d \in rows} |->
        Cardinality({d \in rows : d.raspberry_id = id})]

\* A total that counts the devices with a detection, not the detections
total_detections_distinct(rows) == Cardinality({d.raspberry_id : d \in rows})

\* SELECT COUNT(*) FROM detections
total_detections(rows) == Cardinality(rows)

\* get_statistics_data over the detections rows it reads (its averages are
\* not part of this record)
statistics(rows) ==
    [total_detections |-> total_detections(rows),
     active_raspberries |-> Cardinality({d.raspberry_id : d \in rows}),
     detections_by_pi |-> detections_by_pi(rows)]

\* get_statistics_data opens a connection of its own and reads the committed
\* rows
get_statistics_data == statistics(detections)

\* The NULL of a REAL column, as a number no sensor reports: SQLite stores NULL
\* for a reading that arrives as NaN (the form field "nan" is a valid float)
NullReading == -1000

RECURSIVE SumTemperature(_)
SumTemperature(rows) ==
    IF rows = {} THEN 0
    ELSE LET d == CHOOSE x \in rows : TRUE
         IN  d.temperature + SumTemperature(rows \ {d})

RECURSIVE SumHumidity(_)
SumHumidity(rows) ==
    IF rows = {} THEN 0
    ELSE LET d == CHOOSE x \in rows : TRUE
         IN  d.humidity + SumHumidity(rows \ {d})

\* round(x, 2) of the quotient sum / n of non-negative integers, in hundredths
round2(sum, n) == (200 * sum + n) \div (2 * n)

\* An average that counts a NULL reading as a reading of 0
avg_temperature_all(rows) ==
    IF rows = {} THEN 0
    ELSE round2(SumTemperature({d \in rows : d.temperature # NullReading}),
                Cardinality(rows))

\* SELECT AVG(temperature) FROM detections WHERE temperature IS NOT NULL;
\* avg_temp = cursor.fetchone()[0] or 0; round(avg_temp, 2): in hundredths.
\* AVG over no row is NULL, which `or 0` turns into 0
avg_temperature(rows) ==
    LET known == {d \in rows : d.temperature # NullReading}
    IN  IF known = {} THEN 0
        ELSE round2(SumTemperature(known), Cardinality(known))

\* SELECT AVG(humidity) FROM detections WHERE humidity IS NOT NULL, likewise
avg_humidity(rows) ==
    LET known == {d \in rows : d.humidity # NullReading}
    IN  IF known = {} THEN 0
        ELSE round2(SumHumidity(known), Cardinality(known))

\* The sum of the values of a dict of counts
RECURSIVE SumValues(_)
SumValues(f) ==
    IF DOMAIN f = {} THEN 0
    ELSE LET k == CHOOSE x \in DOMAIN f : TRUE
         IN  f[k] + SumValues([x \in DOMAIN f \ {k} |-> f[x]])

\* ---------------------------------------------- ConnectionManager.broadcast
\* An exception leaves the handler of request t: its except clause answers
\* 500; a transaction still open is rolled back when its connection is dropped
Raise(t) ==
    /\ task' = [task EXCEPT ![t] = EndTask(@, "failed", 500)]
    /\ IF lock = t
       THEN lock' = 0 /\ txn' = {}
       ELSE UNCHANGED <<lock, txn>>
    /\ running' = 0

\* for connection in self.active_connections: with rec the handler's state,
\* conns the list and q the channels' pending sends.  The iterator takes the
\* element at its index, if there is one, and the handler suspends in
\* await connection.send_text(message); otherwise the loop is exhausted and
\* the handler keeps the event loop
BroadcastStep(t, rec, conns, q) ==
    IF rec.it < Len(conns)
    THEN LET o == conns[rec.it + 1]
         IN  /\ task' = [task EXCEPT ![t] = [rec EXCEPT !.it = @ + 1, !.cur = o]]
             /\ sendq' = [q EXCEPT ![o] = Append(@, t)]
             /\ running' = 0
    ELSE /\ task' = [task EXCEPT ![t] = rec]
         /\ sendq' = q
         /\ running' = t

\* The handler of request t, in state rec, calls manager.broadcast at place
\* pcv.  Over an empty list this broadcast returns at once, and so does every
\* later one of the handler, which then returns its response without having
\* suspended
CallBroadcast(t, rec, pcv) ==
    IF active_connections = <<>>
    THEN /\ task' = [task EXCEPT ![t] =
                       IF rec.kind = "ingest" THEN EndTask(rec, "acked", 200)
                                              ELSE EndTask(rec, "done", 200)]
         /\ sendq' = sendq
         /\ running' = 0
    ELSE BroadcastStep(t, BeginBroadcast(rec, pcv, active_connections),
                       active_connections, sendq)

\* The send completes and the handler resumes: the message is delivered; or
\* RuntimeError: the except clause removes the connection from the list being
\* iterated (list.remove raises ValueError if it is no longer there, and the
\* exception leaves broadcast); or another exception: the except clause only
\* logs it.  Then the loop goes on
SendComplete(t) ==
    LET o == task[t].cur
        q == [sendq EXCEPT ![o] = Tail(@)]
    IN  /\ running = 0
        /\ task[t].pc \in BcastPcs
        /\ o # 0
        /\ sendq[o] # <<>> /\ Head(sendq[o]) = t
        /\ chan[o] # "stalled"
        /\ \E outcome \in SendOutcomes(chan[o]) :
           CASE outcome = "ok" ->
                  /\ received' = [received EXCEPT ![o] = Deliver(@, MsgType(task[t].pc))]
                  /\ BroadcastStep(t, [task[t] EXCEPT !.cur = 0, !.delivered = Append(@, o)],
                                   active_connections, q)
                  /\ UNCHANGED <<active_connections, lock, txn>>
             [] outcome = "RuntimeError" ->
                  /\ UNCHANGED received
                  /\ LET d == disconnect(active_connections, o)
                     IN  IF d.raised
                         THEN Raise(t) /\ sendq' = q /\ UNCHANGED active_connections
                         ELSE /\ active_connections' = d.conns
                              /\ BroadcastStep(t, [task[t] EXCEPT !.cur = 0, !.failed = @ \cup {o}],
                                               d.conns, q)
                              /\ UNCHANGED <<lock, txn>>
             [] OTHER ->
                  /\ UNCHANGED received
                  /\ BroadcastStep(t, [task[t] EXCEPT !.cur = 0, !.failed = @ \cup {o}],
                                   active_connections, q)
                  /\ UNCHANGED <<active_connections, lock, txn>>
        /\ UNCHANGED <<wsVars, raspberry_info, detections, seq, clock>>

\* --------------------------------------------------- receive_raspberry_data
\* The request arrives.  A content type that is not image/* raises
\* HTTPException(400) inside the try block, which the handler's own
\* except Exception turns into a 500 response.  Otherwise the handler names
\* the image file and awaits image.read()
IngestReceive(t, rep) ==
    /\ running = 0
    /\ task[t].pc = "idle"
    /\ t > 1 => task[t - 1].pc # "idle"
    /\ Arrivals < MaxArrivals
    /\ IF ~is_image(rep.content_type)
       THEN task' = [task EXCEPT ![t] = EndTask([@ EXCEPT !.kind = "ingest"], "rejected", 500)]
       ELSE task' = [task EXCEPT ![t] =
                       [@ EXCEPT !.kind = "ingest", !.report = rep, !.pc = "reading"]]
    /\ UNCHANGED <<active_connections, wsVars, sendq, received, storeVars, clock, running>>

\* INSERT INTO detections, UPDATE raspberry_info, conn.commit(), then
\* manager.broadcast(new_detection); pending holds the transaction's
\* uncommitted raspberry_info rows.  The insert raises when another
\* connection holds the write transaction (OperationalError) or the write
\* fails (write_ok); the handler's transaction is then rolled back
InsertAndCommit(t, pending) ==
    \E write_ok \in BOOLEAN :
      IF lock \notin {0, t} \/ ~write_ok
      THEN /\ Raise(t)
           /\ UNCHANGED <<raspberry_info, detections, seq, clock, sendq>>
      ELSE /\ seq' = seq + 1
           /\ clock' = clock + 1
           /\ detections' = insert_detection(detections, seq', task[t].report, clock')
           /\ raspberry_info' = update_device(raspberry_info \cup pending, task[t].report, clock')
           /\ lock' = 0
           /\ txn' = {}
           /\ CallBroadcast(t, [task[t] EXCEPT !.committed = TRUE], "bcast1")

\* image.read() returns: the image is written (artifact_ok: the write works),
\* the handler connects to the database and looks the device up.  An unseen
\* device is inserted, which opens the write transaction (OperationalError if
\* another connection holds one), and a locations_update is broadcast before
\* anything is committed (with no observer that broadcast returns at once and
\* the insert of the detection follows).  For a known device the handler goes
\* straight to the insert of the detection
IngestPersist(t) ==
    /\ running = 0
    /\ task[t].pc = "reading"
    /\ \E artifact_ok \in BOOLEAN :
         IF ~artifact_ok
         THEN /\ task' = [task EXCEPT ![t] = EndTask(@, "failed", 500)]
              /\ UNCHANGED <<storeVars, clock, sendq, running>>
         ELSE IF device_count(raspberry_info, task[t].report.raspberry_id) = 0
         THEN IF lock # 0
              THEN /\ task' = [task EXCEPT ![t] = EndTask(@, "failed", 500)]
                   /\ UNCHANGED <<storeVars, clock, sendq, running>>
              ELSE IF active_connections = <<>>
              THEN InsertAndCommit(t, insert_device({}, task[t].report, clock))
              ELSE /\ lock' = t
                   /\ txn' = insert_device({}, task[t].report, clock)
                   /\ CallBroadcast(t, task[t], "bcast0")
                   /\ UNCHANGED <<raspberry_info, detections, seq, clock>>
         ELSE InsertAndCommit(t, {})
    /\ UNCHANGED <<active_connections, wsVars, received>>

\* manager.broadcast returns (the for loop is exhausted): the handler goes on
\* to its next statement without suspending
BroadcastReturn(t) ==
    /\ running = t
    /\ task[t].pc \in BcastPcs
    /\ task[t].it >= Len(active_connections)
    /\ CASE task[t].pc = "bcast0" ->
              InsertAndCommit(t, txn)
         [] task[t].pc \in {"bcast1", "bcast2", "dbcast1"} ->
              /\ CallBroadcast(t, task[t], NextBroadcast(task[t].pc))
              /\ UNCHANGED <<storeVars, clock>>
         [] task[t].pc = "bcast3" ->
              /\ task' = [task EXCEPT ![t] = EndTask(@, "acked", 200)]
              /\ running' = 0
              /\ UNCHANGED <<storeVars, clock, sendq>>
         [] OTHER ->
              /\ task' = [task EXCEPT ![t] = EndTask(@, "done", 200)]
              /\ running' = 0
              /\ UNCHANGED <<storeVars, clock, sendq>>
    /\ UNCHANGED <<active_connections, wsVars, received>>

\* -------------------------------------------------------------- delete_data
\* A delete whose date range leaves out its two end days
delete_detections_exclusive(rows, rid, sd, ed) ==
    IF sd # <<>> /\ ed # <<>>
    THEN {d \in rows : ~(sd[1] < d.timestamp /\ d.timestamp < ed[1])}
    ELSE IF rid # NoneVal
    THEN {d \in rows : d.raspberry_id # rid}
    ELSE {}

\* if start_date and end_date: by date; elif raspberry_id: by identity;
\* else: everything
delete_detections(rows, rid, sd, ed) ==
    IF sd # <<>> /\ ed # <<>>
    THEN {d \in rows : ~(sd[1] <= d.timestamp /\ d.timestamp <= ed[1])}
    ELSE IF rid # NoneVal
    THEN {d \in rows : d.raspberry_id # rid}
    ELSE {}

delete_devices(rows, rid, sd, ed) ==
    IF sd # <<>> /\ ed # <<>>
    THEN rows
    ELSE IF rid # NoneVal
    THEN {r \in rows : r.raspberry_id # rid}
    ELSE {}

DeleteIds == {NoneVal, "DIRIS_LIMA"}
\* A date parameter: <<>> when absent, <<day>> when given
DeleteDates == {<<>>, <<1>>}

\* A wrong admin_key is answered 403 before the database is opened.  The
\* DELETE statements and the commit run without suspending (OperationalError,
\* answered 500, if another connection holds the write transaction); then the
\* handler broadcasts locations_update and stats_update
delete_data(t, admin_key, rid, sd, ed) ==
    /\ running = 0
    /\ task[t].pc = "idle"
    /\ t > 1 => task[t - 1].pc # "idle"
    /\ Arrivals < MaxArrivals
    /\ IF admin_key # ADMIN_KEY
       THEN /\ task' = [task EXCEPT ![t] = EndTask([@ EXCEPT !.kind = "delete"], "denied", 403)]
            /\ UNCHANGED <<raspberry_info, detections, sendq, running>>
       ELSE IF lock # 0
       THEN /\ task' = [task EXCEPT ![t] = EndTask([@ EXCEPT !.kind = "delete"], "failed", 500)]
            /\ UNCHANGED <<raspberry_info, detections, sendq, running>>
       ELSE /\ detections' = delete_detections(detections, rid, sd, ed)
            /\ raspberry_info' = delete_devices(raspberry_info, rid, sd, ed)
            /\ CallBroadcast(t, [task[t] EXCEPT !.kind = "delete", !.committed = TRUE],
                             "dbcast1")
    /\ UNCHANGED <<active_connections, wsVars, received, seq, lock, txn, clock>>

\* ------------------------------------------------------------ specification
Next ==
    \/ \E o \in Obs : WsOpen(o)
    \/ \E o \in Obs : WsAccepted(o)
    \/ \E o \in Obs : WsSnapshotDone(o)
    \/ \E o \in Obs : WsDisconnected(o)
    \/ \E o \in Obs : ChanFail(o)
    \/ \E t \in Tasks, rep \in Reports : IngestReceive(t, rep)
    \/ \E t \in Tasks : IngestPersist(t)
    \/ \E t \in Tasks : SendComplete(t)
    \/ \E t \in Tasks : BroadcastReturn(t)
    \/ \E t \in Tasks, k \in {ADMIN_KEY, "wrong"}, rid \in DeleteIds,
          sd \in DeleteDates, ed \in DeleteDates : delete_data(t, k, rid, sd, ed)

Spec == Init /\ [][Next]_vars

\* ------------------------------------------- with readings that may be NaN
\* Reports of a known device whose temperature and humidity are numbers or NaN
StatsReports ==
    {[Report("DIRIS_LIMA", <<"image", "jpeg">>) EXCEPT !.temperature = te, !.humidity = hu] :
        te \in {NullReading, 20, 22}, hu \in {NullReading, 60, 61}}

\* The HTTP endpoints at work with no WebSocket client connected
StatsNext ==
    \/ \E t \in Tasks, rep \in StatsReports : IngestReceive(t, rep)
    \/ \E t \in Tasks : IngestPersist(t)
    \/ \E t \in Tasks, rid \in DeleteIds, sd \in DeleteDates, ed \in DeleteDates :
          delete_data(t, ADMIN_KEY, rid, sd, ed)

StatsSpec == Init /\ [][StatsNext]_vars

\* ----------------------------------------------- with a stalled observer
\* The client of a listening observer stops reading: its channel accepts no
\* more data and a send_text on it stays suspended until the connection
\* breaks (ChanFail), if it ever does
ChanStall(o) ==
    /\ running = 0
    /\ wsPc[o] = "receiving"
    /\ chan[o] = "open"
    /\ chan' = [chan EXCEPT ![o] = "stalled"]
    /\ UNCHANGED <<active_connections, wsPc, sendq, received, storeVars, clock, task, running>>

FairNext ==
    \/ Next
    \/ \E o \in Obs : ChanStall(o)

\* The event loop runs every coroutine that is ready: a handler whose await
\* has completed resumes, and a send on a channel that takes data completes
Fairness ==
    /\ \A t \in Tasks : WF_vars(IngestPersist(t))
    /\ \A t \in Tasks : WF_vars(SendComplete(t))
    /\ \A t \in Tasks : WF_vars(BroadcastReturn(t))
    /\ \A o \in Obs : WF_vars(WsAccepted(o))
    /\ \A o \in Obs : WF_vars(WsSnapshotDone(o))

FairSpec == Init /\ [][FairNext]_vars /\ Fairness

\* ------------------------------------------------- properties of broadcast
\* The for loop of the broadcast of request t is exhausted and broadcast is
\* about to return to the handler
BroadcastFinished(t) ==
    /\ running = t
    /\ task[t].pc \in BcastPcs
    /\ task[t].it >= Len(active_connections)

\* How many times observer o was delivered the message of a broadcast
Deliveries(delivered, o) ==
    Cardinality({i \in 1..Len(delivered) : delivered[i] = o})

\* C1: when a broadcast returns after exactly one observer's send failed,
\* every other observer that was registered when it started, and is still
\* connected and listening, was delivered the message exactly once
C1_OthersDeliveredOnce ==
    \A t \in Tasks :
        (BroadcastFinished(t) /\ Cardinality(task[t].failed) = 1) =>
            \A o \in Range(task[t].start) \ task[t].failed :
                (chan[o] = "open" /\ wsPc[o] = "receiving") =>
                    Deliveries(task[t].delivered, o) = 1

\* C2: when a broadcast returns, no observer whose send failed during it is
\* still in the registry
C2_FailedRemoved ==
    \A t \in Tasks :
        BroadcastFinished(t) => task[t].failed \cap Range(active_connections) = {}

\* C3: an ingestion whose transaction has committed is never answered with
\* an error: no exception leaves broadcast
C3_CommittedNeverFails ==
    \A t \in Tasks :
        (task[t].kind = "ingest" /\ task[t].committed) => task[t].pc # "failed"

\* C4: disconnect of an observer that is not in the registry raises nothing:
\* no websocket endpoint ends with an exception out of manager.disconnect
C4_DisconnectNeverRaises ==
    \A o \in Obs : wsPc[o] # "error"

\* ------------------------------------------------ properties of registration
\* C5: the first message delivered to an observer is the initial_data
\* snapshot (no broadcast message comes before it), an observer is delivered
\* at most one snapshot, and an observer in its receive loop has been
\* delivered exactly one
C5_SnapshotFirst ==
    \A o \in Obs :
        /\ received[o].first \in {NoneVal, "initial_data"}
        /\ received[o].snapshots <= 1
        /\ wsPc[o] = "receiving" => received[o].snapshots = 1

\* An observer has been delivered its snapshot and then the message of a
\* broadcast
C5_Witness ==
    \E o \in Obs, t \in Tasks :
        /\ received[o].first = "initial_data"
        /\ received[o].snapshots = 1
        /\ o \in Range(task[t].delivered)

\* ---------------------------------------------------- properties of ingestion
\* C6: with a stalled observer in the registry, an ingestion that has read
\* its image is still answered (acknowledged, or failed with an error)
C6_IngestionAnswered ==
    \A t \in Tasks :
        (task[t].pc = "reading") ~> (task[t].pc \in {"acked", "failed"})

\* C7: an ingestion that has broadcast a message to the observers has
\* committed its transaction
C7_NoBroadcastBeforeCommit ==
    \A t \in Tasks :
        (task[t].kind = "ingest" /\ task[t].sent # <<>>) => task[t].committed

\* C8: when the last broadcast of an ingestion returns, the observers have
\* been sent new_detection, locations_update and stats_update, in this
\* order and nothing else
C8_MessageOrder ==
    \A t \in Tasks :
        (BroadcastFinished(t) /\ task[t].pc = "bcast3") =>
            task[t].sent = <<"new_detection", "locations_update", "stats_update">>

\* C9: an ingestion whose image is not of an image type is rejected in the
\* step it arrives: it changes nothing in the store (no row, no transaction)
\* and nothing in the registry and the channels (no broadcast), and a
\* rejected request never does anything afterwards
C9_RejectedChangesNothing ==
    [][\A t \in Tasks :
          /\ \A rep \in Reports :
                (rep.content_type[1] # "image" /\ IngestReceive(t, rep)) =>
                    /\ task'[t].pc = "rejected"
                    /\ ~task'[t].committed
                    /\ task'[t].sent = <<>>
                    /\ UNCHANGED <<storeVars, active_connections, sendq, received>>
          /\ task[t].pc = "rejected" => task'[t] = task[t]]_vars

\* An ingestion was rejected while the store held a detection and an observer
\* was registered
C9_Witness ==
    \E t \in Tasks :
        /\ task[t].pc = "rejected"
        /\ detections # {}
        /\ active_connections # <<>>

\* C10: a step that commits an ingestion adds exactly one detection, under an
\* id no detection has, and leaves the others as they are; an acknowledged
\* ingestion has committed; any other step that changes the detections is
\* the delete of an authorised delete_data and only removes rows
C10_AppendOnly ==
    [][/\ \A t \in Tasks :
            /\ (task[t].kind = "ingest" /\ ~task[t].committed /\ task'[t].committed) =>
                  /\ detections \subseteq detections'
                  /\ Cardinality(detections' \ detections) = 1
                  /\ \A d \in detections' \ detections :
                        \A e \in detections : e.id # d.id
            /\ task'[t].pc = "acked" => task'[t].committed
       /\ detections' # detections =>
            \/ \E t \in Tasks : task[t].kind = "ingest" /\ ~task[t].committed /\ task'[t].committed
            \/ /\ \E t \in Tasks : task[t].pc = "idle" /\ task'[t].kind = "delete"
                                     /\ task'[t].committed
               /\ detections' \subseteq detections]_vars

\* Two ingestions of the same device were acknowledged and both detections
\* are in the store
C10_Witness ==
    /\ \E t, u \in Tasks : t # u /\ task[t].pc = "acked" /\ task[u].pc = "acked"
    /\ \E d, e \in detections : d.id # e.id /\ d.raspberry_id = e.raspberry_id

\* ------------------------------------------------------ properties of the store
\* C11: there is at most one raspberry_info row per raspberry_id, among the
\* committed rows and the rows of the open transaction together, also while
\* ingestions of the same unseen device are suspended between the existence
\* check and the commit
C11_OneDevicePerIdentity ==
    \A r, s \in raspberry_info \cup txn :
        r.raspberry_id = s.raspberry_id => r = s

\* One ingestion of an unseen device has inserted its row and is suspended in
\* the broadcast before its commit, while another ingestion of the same
\* device is suspended in image.read()
C11_Witness ==
    \E t, u \in Tasks :
        /\ t # u
        /\ task[t].pc = "bcast0" /\ lock = t
        /\ \E r \in txn : r.raspberry_id = NewId
        /\ task[u].pc = "reading" /\ task[u].report.raspberry_id = NewId

\* The raspberry_info row behind a row of the locations data
DeviceOf(row) ==
    [raspberry_id |-> row.raspberry_id, name |-> row.name, location |-> row.location,
     latitude |-> row.latitude, longitude |-> row.longitude,
     last_seen |-> row.last_seen, status |-> row.status]

\* C12: whenever the locations data are computed, a device that an ingestion
\* created or updated comes with that ingestion's detection (as long as no
\* delete has removed detections, the device's last detection is the one
\* stored when the device was last seen), and every detection comes with its
\* device, last seen no earlier than the detection
C12_AtomicVisibility ==
    /\ (\A t \in Tasks : ~(task[t].kind = "delete" /\ task[t].committed)) =>
          \A row \in get_raspberry_locations_data :
              DeviceOf(row) \notin init_db => row.last_detection = <<row.last_seen>>
    /\ \A d \in detections :
          \E row \in get_raspberry_locations_data :
              row.raspberry_id = d.raspberry_id /\ row.last_seen >= d.timestamp

\* An observer registered, and its snapshot was computed, while an ingestion
\* of an unseen device was suspended in the broadcast before its commit, the
\* device inserted and the detection not yet
C12_Witness ==
    \E t \in Tasks, o \in Obs :
        /\ task[t].pc = "bcast0" /\ lock = t /\ txn # {}
        /\ o \in Range(active_connections) /\ o \notin Range(task[t].start)
        /\ wsPc[o] \in {"snapshot", "receiving"}

\* ---------------------------------------------------- properties of delete_data
\* C13: an authorised delete that finds the database unlocked, called with
\* only a complete date range, removes the detections dated within the range,
\* its two end days included, and leaves the other detections and every
\* device; called with only an identity it removes that device and its
\* detections and nothing else; called with no filter it empties both tables
C13_DeleteModes ==
    [][\A t \in Tasks :
          (task[t].pc = "idle" /\ task'[t].kind = "delete") =>
            \A rid \in DeleteIds, sd \in DeleteDates, ed \in DeleteDates :
              (lock = 0 /\ delete_data(t, "SECRET123", rid, sd, ed)) =>
                /\ (rid = NoneVal /\ sd # <<>> /\ ed # <<>>) =>
                      /\ detections' = {d \in detections :
                                            d.timestamp < sd[1] \/ d.timestamp > ed[1]}
                      /\ raspberry_info' = raspberry_info
                /\ (rid # NoneVal /\ sd = <<>> /\ ed = <<>>) =>
                      /\ detections' = {d \in detections : d.raspberry_id # rid}
                      /\ raspberry_info' = {r \in raspberry_info : r.raspberry_id # rid}
                /\ (rid = NoneVal /\ sd = <<>> /\ ed = <<>>) =>
                      /\ detections' = {}
                      /\ raspberry_info' = {}]_vars

\* After two ingestions and a committed delete the detection of day 1 is gone
\* and the one of day 2 is still there, and so are devices
C13_Witness ==
    /\ \E t \in Tasks : task[t].kind = "delete" /\ task[t].committed
    /\ seq = 2
    /\ \E d \in detections : d.timestamp = 2
    /\ \A d \in detections : d.timestamp # 1
    /\ raspberry_info # {}

\* C14: an authorised delete called with both an identity and a complete date
\* range deletes by identity: that device and its detections go, and the
\* detections of other devices stay, whatever their dates
C14_IdentityPrecedence ==
    [][\A t \in Tasks :
          (task[t].pc = "idle" /\ task'[t].kind = "delete") =>
            \A rid \in DeleteIds \ {NoneVal}, sd \in DeleteDates \ {<<>>},
               ed \in DeleteDates \ {<<>>} :
              (lock = 0 /\ delete_data(t, "SECRET123", rid, sd, ed)) =>
                /\ detections' = {d \in detections : d.raspberry_id # rid}
                /\ raspberry_info' = {r \in raspberry_info : r.raspberry_id # rid}]_vars

\* C15: a delete called with a wrong admin_key, whatever its identity and date
\* parameters, is answered 403 in the step it arrives: it changes nothing in
\* the store (no row, no transaction) and nothing in the registry and the
\* channels (no broadcast), and a denied request never does anything afterwards
C15_WrongKeyChangesNothing ==
    [][\A t \in Tasks :
          /\ (task[t].pc = "idle" /\ task'[t].kind = "delete") =>
                \A rid \in DeleteIds, sd \in DeleteDates, ed \in DeleteDates :
                    delete_data(t, "wrong", rid, sd, ed) =>
                        /\ task'[t].pc = "denied"
                        /\ task'[t].status_code = 403
                        /\ ~task'[t].committed
                        /\ task'[t].sent = <<>>
                        /\ UNCHANGED <<storeVars, active_connections, sendq, received>>
          /\ task[t].pc = "denied" => task'[t] = task[t]]_vars

\* A delete was denied while the store held a detection and an observer was
\* registered
C15_Witness ==
    \E t \in Tasks :
        /\ task[t].pc = "denied"
        /\ detections # {}
        /\ active_connections # <<>>

\* -------------------------------------------------- properties of the readers
\* C16: in every state ingestions and deletes lead to, the total_detections of
\* the statistics is the number of detections rows and is the sum of the
\* counts of detections_by_pi; a step that writes nothing to detections
\* leaves the statistics as they were
C16_TotalDetections ==
    [][/\ get_statistics_data'.total_detections = Cardinality(detections')
       /\ get_statistics_data'.total_detections
             = SumValues(get_statistics_data'.detections_by_pi)
       /\ detections' = detections => get_statistics_data' = get_statistics_data]_vars

\* After two acknowledged ingestions of one device the statistics count two
\* detections, both under that device
C16_Witness ==
    /\ \E t \in Tasks : task[t].pc = "acked"
    /\ \E id \in DOMAIN get_statistics_data.detections_by_pi :
          get_statistics_data.detections_by_pi[id] = 2
    /\ get_statistics_data.total_detections = 2

\* ------------------------------------------------- properties of the upsert
\* C17: the step that commits an ingestion, for a device with no row, adds
\* one row with the reported name, location and position, status online and
\* the time of the commit, and changes no other row; for a device with a row
\* it sets that row's position, location and last_seen, and its status to
\* online, and leaves its name and every other row as they were
C17_DeviceUpsert ==
    [][\A t \in Tasks :
          (task[t].kind = "ingest" /\ ~task[t].committed /\ task'[t].committed) =>
            LET rep == task[t].report
                old == {r \in raspberry_info : r.raspberry_id = rep.raspberry_id}
                fresh == {r \in raspberry_info' : r.raspberry_id = rep.raspberry_id}
            IN  /\ {r \in raspberry_info' : r.raspberry_id # rep.raspberry_id}
                      = {r \in raspberry_info : r.raspberry_id # rep.raspberry_id}
                /\ Cardinality(fresh) = 1
                /\ \A n \in fresh :
                      /\ n.location = rep.location
                      /\ n.latitude = rep.latitude
                      /\ n.longitude = rep.longitude
                      /\ n.last_seen = clock'
                      /\ n.status = "online"
                      /\ IF old = {} THEN n.name = rep.name
                                     ELSE \A r \in old : n.name = r.name]_vars

\* A seeded device holds the reported location under its seeded name, and an
\* unseen device has been created under the reported name
C17_Witness ==
    /\ \E r \in raspberry_info :
          /\ r.raspberry_id = "DIRIS_LIMA"
          /\ r.name = "Raspberry Pi DIRIS"
          /\ r.location = "Reported location"
    /\ \E r \in raspberry_info :
          r.raspberry_id = NewId /\ r.name = "Reported name" /\ r.status = "online"

\* C18: every detections row belongs to a raspberry_id that has a
\* raspberry_info row, in every state ingestions and deletes lead to: the
\* device is there when the detection is committed and no delete removes a
\* device and leaves a detection of it
C18_DetectionHasDevice ==
    \A d \in detections :
        \E r \in raspberry_info : r.raspberry_id = d.raspberry_id

\* A detection of a device that was unseen is in the store after a delete
\* has been committed too
C18_Witness ==
    /\ \E t \in Tasks : task[t].kind = "delete" /\ task[t].committed
    /\ \E d \in detections : d.raspberry_id = NewId

\* ------------------------------------------- properties of disconnections
\* C19: when a broadcast of an ingestion returns, and an observer that was
\* registered when it started has disconnected in the meantime (its endpoint
\* removed it from the registry), every other observer that was registered
\* when it started, and is still connected and listening, was delivered the
\* message exactly once
C19_DisconnectLeavesOthers ==
    \A t \in Tasks :
        (/\ BroadcastFinished(t)
         /\ task[t].kind = "ingest"
         /\ \E x \in Range(task[t].start) : wsPc[x] = "closed") =>
            \A o \in Range(task[t].start) \cap Range(active_connections) :
                (chan[o] = "open" /\ wsPc[o] = "receiving") =>
                    Deliveries(task[t].delivered, o) = 1

\* ---------------------------------------------- properties of registration
\* C20: a connection on /ws that has been opened is admitted to the registry
\* and delivered its snapshot, unless its own channel fails first, also while
\* a broadcast is suspended on a send to a stalled observer
C20_RegistrationNotBlocked ==
    \A o \in Obs :
        (wsPc[o] = "accepting") ~>
            \/ received[o].snapshots = 1 /\ o \in Range(active_connections)
            \/ chan[o] = "closed"

\* A broadcast is suspended on its send to a stalled observer, and an observer
\* that registered after the broadcast started is in the registry and has
\* been delivered its snapshot
C20_Witness ==
    \E t \in Tasks, s \in Obs, o \in Obs :
        /\ task[t].pc \in BcastPcs /\ task[t].cur = s
        /\ chan[s] = "stalled" /\ sendq[s] # <<>>
        /\ o \notin Range(task[t].start)
        /\ o \in Range(active_connections)
        /\ received[o].snapshots = 1

\* ------------------------------------------------ properties of the averages
\* C21: the average temperature and the average humidity of the statistics
\* are 0 when no detection has a value, and otherwise the mean, to the
\* nearest hundredth, over the detections whose value is not NULL: a NULL
\* reading counts neither in the sum nor in the number of readings
C21_AveragesSkipNull ==
    LET temps == {d \in detections : d.temperature # NullReading}
        hums == {d \in detections : d.humidity # NullReading}
        Dist(a, b) == IF a >= b THEN a - b ELSE b - a
    IN  /\ temps = {} => avg_temperature(detections) = 0
        /\ temps # {} =>
              2 * Dist(avg_temperature(detections) * Cardinality(temps),
                       100 * SumTemperature(temps)) <= Cardinality(temps)
        /\ hums = {} => avg_humidity(detections) = 0
        /\ hums # {} =>
              2 * Dist(avg_humidity(detections) * Cardinality(hums),
                       100 * SumHumidity(hums)) <= Cardinality(hums)

\* The stored temperatures are 20, NULL and 22 and the average is 21.00
C21_Witness ==
    /\ Cardinality(detections) = 3
    /\ {d.temperature : d \in detections} = {20, NullReading, 22}
    /\ avg_temperature(detections) = 2100

\* ------------------------------------------ properties of the write transaction
\* C22: an ingestion that is suspended in a send of a broadcast holds no open
\* write transaction, so the database is never locked against the other
\* requests while an observer is awaited
C22_NoLockAcrossSend ==
    \A t \in Tasks :
        (task[t].kind = "ingest" /\ task[t].pc \in BcastPcs /\ task[t].cur # 0) =>
            lock # t

\* ------------------------------------------------ properties of the outcomes
\* C23: an ingestion ends in one of three ways: rejected with a 4xx status
\* (its attachment is not an image), failed with status 500 and nothing
\* committed (a write to the store failed), or acknowledged with status 200
C23_OutcomeStateMachine ==
    \A t \in Tasks :
        task[t].kind = "ingest" =>
            /\ task[t].pc = "rejected" =>
                  task[t].status_code >= 400 /\ task[t].status_code <= 499
            /\ task[t].pc = "failed" =>
                  task[t].status_code = 500 /\ ~task[t].committed
            /\ task[t].pc = "acked" =>
                  task[t].status_code = 200 /\ task[t].committed

\* C24: an ingestion answered with an error status (4xx or 5xx) has committed
\* nothing: neither its detection nor its insert or update of the device
C24_ErrorMeansNothingCommitted ==
    \A t \in Tasks :
        (task[t].kind = "ingest" /\ task[t].status_code >= 400) => ~task[t].committed

\* ------------------------------------------- properties of delete's messages
\* C25: a delete_data broadcasts only after its deletion is committed; what
\* it has sent to the observers is at any time a beginning of
\* locations_update, stats_update (never a new_detection); when its last
\* broadcast returns it has sent exactly these two; it then answers 200
C25_DeleteBroadcasts ==
    \A t \in Tasks :
        task[t].kind = "delete" =>
            /\ task[t].sent \in {<<>>, <<"locations_update">>,
                                  <<"locations_update", "stats_update">>}
            /\ task[t].sent # <<>> => task[t].committed
            /\ (BroadcastFinished(t) /\ task[t].pc = "dbcast2") =>
                  task[t].sent = <<"locations_update", "stats_update">>
            /\ task[t].pc = "done" => task[t].committed /\ task[t].status_code = 200

\* The stats_update broadcast of a delete that removed a detection returns,
\* having been delivered to an observer
C25_Witness ==
    \E t \in Tasks :
        /\ task[t].kind = "delete"
        /\ BroadcastFinished(t) /\ task[t].pc = "dbcast2"
        /\ task[t].delivered # <<>>
        /\ seq = 1 /\ detections = {}

====
